---- MODULE Spec2Model ----
(***************************************************************************)
(* ContactsManagerClient (token issuer, user create/delete facade and      *)
(* webhook-signature verifier) as a state machine.                         *)
(*                                                                         *)
(* JavaScript values are tagged records, strings are TLA+ strings handled  *)
(* with Len, \o and SubSeq, and time is the millisecond clock Date.now()   *)
(* reads.  HMAC-SHA256 is an injective hex encoding of (key, message):     *)
(* two digests are equal exactly when key and message are equal.           *)
(***************************************************************************)
EXTENDS Integers, Sequences, FiniteSets, TLC

VARIABLES
    client,     \* the ContactsManagerClient the caller holds, or NoClient
    clock,      \* Date.now(), in milliseconds
    uuids,      \* how many values crypto.randomUUID() has handed out
    jtis,       \* the jti claim of every token jwt.sign has produced, in order
    calls,      \* the createUser / deleteUser calls suspended at an await
    webhook,    \* the webhook request at hand: [payload, signature]
    last        \* the call made in the latest step: arguments and outcome

vars == <<client, clock, uuids, jtis, calls, webhook, last>>

----------------------------------------------------------------------------
(* Bounds of the model.                                                    *)

MaxTicks == 3       \* clock steps taken in one behaviour
MaxTokens == 2      \* randomUUID draws (tokens attempted) in one behaviour
MaxCalls == 2       \* createUser / deleteUser calls in flight at once

----------------------------------------------------------------------------
(* JavaScript values.                                                      *)

Str(s) == [kind |-> "string", s |-> s]
Num(n) == [kind |-> "number", nan |-> FALSE, n |-> n]
NaN == [kind |-> "number", nan |-> TRUE, n |-> 0]
Undefined == [kind |-> "undefined"]
Null == [kind |-> "null"]
\* An object is its own enumerable properties in insertion order.
Obj(props) == [kind |-> "object", circular |-> FALSE, props |-> props]
Prop(k, v) == [k |-> k, v |-> v]
\* An object that refers to itself: JSON.stringify throws a TypeError on it.
Circular == [kind |-> "object", circular |-> TRUE, props |-> << >>]

\* typeof v
TypeOf(v) == IF v.kind = "null" THEN "object" ELSE v.kind

\* ToBoolean(v): what `!v` and `if (v)` test.
Truthy(v) ==
    CASE v.kind = "string" -> v.s # ""
      [] v.kind = "number" -> ~v.nan /\ v.n # 0
      [] v.kind = "object" -> TRUE
      [] OTHER -> FALSE

----------------------------------------------------------------------------
(* String primitives.                                                      *)

\* The characters of s at indices a..b (1-based, clipped to the string).
Substring(s, a, b) ==
    LET hi == IF b > Len(s) THEN Len(s) ELSE b
    IN  IF a < 1 \/ a > hi THEN "" ELSE SubSeq(s, a, hi)

CharAt(s, i) == Substring(s, i, i)

\* The first index >= from at which character c stands in s, or 0.
IndexFrom(s, c, from) ==
    LET hits == { i \in from..Len(s) : CharAt(s, i) = c }
    IN  IF hits = {} THEN 0 ELSE CHOOSE i \in hits : \A j \in hits : i <= j

\* String.prototype.split(sep) for a one-character separator: the pieces
\* between separators, empty pieces included, always at least one piece.
RECURSIVE SplitFrom(_, _, _)
SplitFrom(s, sep, from) ==
    LET j == IndexFrom(s, sep, from)
    IN  IF j = 0 THEN << Substring(s, from, Len(s)) >>
        ELSE << Substring(s, from, j - 1) >> \o SplitFrom(s, sep, j + 1)

Split(s, sep) == SplitFrom(s, sep, 1)

DecDigits == <<"0", "1", "2", "3", "4", "5", "6", "7", "8", "9">>
HexDigits == DecDigits \o <<"a", "b", "c", "d", "e", "f">>

\* The value of digit character c in the given radix, or -1.
DigitVal(c, radix) ==
    LET lower == { i \in 1..radix : HexDigits[i] = c }
        upper == { i \in 11..radix : <<"A", "B", "C", "D", "E", "F">>[i - 10] = c }
    IN  IF lower # {} THEN (CHOOSE i \in lower : TRUE) - 1
        ELSE IF upper # {} THEN (CHOOSE i \in upper : TRUE) - 1
        ELSE -1

\* Number -> decimal string, as template literals and JSON.stringify write it.
RECURSIVE NatToString(_)
NatToString(n) ==
    IF n < 10 THEN DecDigits[n + 1]
    ELSE NatToString(n \div 10) \o DecDigits[(n % 10) + 1]

NumberToString(n) == IF n < 0 THEN "-" \o NatToString(-n) ELSE NatToString(n)

\* The longest run of radix digits of s from index i on: [n, any].
RECURSIVE ReadDigits(_, _, _, _, _)
ReadDigits(s, i, radix, acc, any) ==
    IF i > Len(s) \/ DigitVal(CharAt(s, i), radix) < 0
    THEN [n |-> acc, any |-> any]
    ELSE ReadDigits(s, i + 1, radix, acc * radix + DigitVal(CharAt(s, i), radix), TRUE)

RECURSIVE SkipSpaces(_, _)
SkipSpaces(s, i) ==
    IF i <= Len(s) /\ CharAt(s, i) = " " THEN SkipSpaces(s, i + 1) ELSE i

\* parseInt(s) with no radix: leading white space, an optional sign, an
\* optional 0x prefix, then the longest digit prefix; NaN when there is none.
ParseInt(s) ==
    LET i0 == SkipSpaces(s, 1)
        neg == i0 <= Len(s) /\ CharAt(s, i0) = "-"
        i1 == IF i0 <= Len(s) /\ CharAt(s, i0) \in {"-", "+"} THEN i0 + 1 ELSE i0
        hex == Substring(s, i1, i1 + 1) \in {"0x", "0X"}
        r == IF hex THEN ReadDigits(s, i1 + 2, 16, 0, FALSE)
             ELSE ReadDigits(s, i1, 10, 0, FALSE)
    IN  IF ~r.any THEN NaN
        ELSE Num(IF neg THEN -r.n ELSE r.n)

----------------------------------------------------------------------------
(* JSON.stringify and string conversion.                                   *)

RECURSIVE JSONText(_)
\* The JSON text of a value that has one.  Strings of the model hold no
\* character JSON escapes; a property whose value is undefined is left out.
JSONText(v) ==
    LET RECURSIVE Members(_, _)
        Members(props, i) ==
            IF i > Len(props) THEN ""
            ELSE (IF i > 1 THEN "," ELSE "")
                 \o "\"" \o props[i].k \o "\":" \o JSONText(props[i].v)
                 \o Members(props, i + 1)
    IN  CASE v.kind = "string" -> "\"" \o v.s \o "\""
          [] v.kind = "number" -> IF v.nan THEN "null" ELSE NumberToString(v.n)
          [] v.kind = "object" ->
                "{" \o Members(SelectSeq(v.props, LAMBDA p : p.v.kind # "undefined"), 1) \o "}"
          [] OTHER -> "null"

Thrown(name) == [kind |-> "throw", error |-> name]

\* JSON.stringify(v): a string, undefined for undefined, a TypeError for a
\* circular structure.
JSONStringify(v) ==
    CASE v.kind = "undefined" -> Undefined
      [] v.kind = "object" /\ v.circular -> Thrown("TypeError")
      [] OTHER -> Str(JSONText(v))

\* `${v}` in a template literal.
TemplateString(v) ==
    CASE v.kind = "string" -> v.s
      [] v.kind = "number" -> IF v.nan THEN "NaN" ELSE NumberToString(v.n)
      [] v.kind = "undefined" -> "undefined"
      [] v.kind = "null" -> "null"
      [] OTHER -> "[object Object]"

----------------------------------------------------------------------------
(* crypto.                                                                 *)

\* The printable ASCII characters, in code order from 0x20 (a blank stands
\* in the place of the grave accent 0x60, which no string here contains).
Printable ==
    " !\"#$%&'()*+,-./0123456789:;<=>?@ABCDEFGHIJKLMNOPQRSTUVWXYZ[\\]^_ abcdefghijklmnopqrstuvwxyz{|}~"

\* Two hex digits for the byte of each printable character.
HexTable ==
    [c \in {CharAt(Printable, i) : i \in 1..Len(Printable)} |->
        LET code == 31 + IndexFrom(Printable, c, 1)
        IN  HexDigits[(code \div 16) + 1] \o HexDigits[(code % 16) + 1]]

HexByte(c) == HexTable[c]

\* Buffer.from(s).toString('hex') of the characters a..b of s.
RECURSIVE HexRange(_, _, _)
HexRange(s, a, b) ==
    IF a > b THEN ""
    ELSE IF a = b THEN HexByte(CharAt(s, a))
    ELSE LET mid == (a + b) \div 2
         IN  HexRange(s, a, mid) \o HexRange(s, mid + 1, b)

Hex(s) == HexRange(s, 1, Len(s))

\* crypto.createHmac('sha256', key).update(data).digest('hex').  The digest
\* is a hex string that determines key and data: the bytes of the key, a
\* zero byte, the bytes of the data.  (SHA-256 digests all have 64 hex
\* digits; these grow with the input.)
HmacSha256Hex(key, data) == Hex(key) \o "00" \o Hex(data)

\* A comparison that looks at the lengths alone.
timingSafeEqual_LengthOnly(a, b) ==
    IF Len(a) # Len(b) THEN Thrown("RangeError")
    ELSE [kind |-> "boolean", b |-> TRUE]

\* crypto.timingSafeEqual(Buffer.from(a), Buffer.from(b)): a RangeError when
\* the byte lengths differ, else whether the bytes are equal.
timingSafeEqual(a, b) ==
    IF Len(a) # Len(b) THEN Thrown("RangeError")
    ELSE [kind |-> "boolean", b |-> (a = b)]

----------------------------------------------------------------------------
(* ContactsManagerClient: construction and the webhook secret.             *)

NoClient == [constructed |-> FALSE]

DefaultExpirationSeconds == 86400
DefaultExpirySeconds == 86400
MaxAgeSeconds == 900

\* The constructor as it would be with orgId left out of its check.
NewClient_OrgIdUnchecked(config) ==
    LET this == [apiKey |-> config.apiKey,
                 apiSecret |-> config.apiSecret,
                 orgId |-> config.orgId,
                 webhookSecret |-> Null,
                 defaultExpirationSeconds |-> DefaultExpirationSeconds]
    IN  IF ~Truthy(this.apiKey) \/ ~Truthy(this.apiSecret)
        THEN [outcome |-> "throw",
              error |-> "Missing required configuration: apiKey, apiSecret, and orgId are required",
              object |-> NoClient]
        ELSE [outcome |-> "return", error |-> "", object |-> this]

\* new ContactsManagerClient(config): the fields are assigned, then checked.
NewClient(config) ==
    LET this == [apiKey |-> config.apiKey,
                 apiSecret |-> config.apiSecret,
                 orgId |-> config.orgId,
                 webhookSecret |-> Null,
                 defaultExpirationSeconds |-> DefaultExpirationSeconds]
    IN  IF ~Truthy(this.apiKey) \/ ~Truthy(this.apiSecret) \/ ~Truthy(this.orgId)
        THEN [outcome |-> "throw",
              error |-> "Missing required configuration: apiKey, apiSecret, and orgId are required",
              object |-> NoClient]
        ELSE [outcome |-> "return", error |-> "", object |-> this]

\* The setter assigning before it checks.
SetWebhookSecretOn_AssignFirst(this, secret) ==
    IF ~Truthy(secret) \/ TypeOf(secret) # "string"
    THEN [outcome |-> "throw",
          error |-> "Webhook secret is required and must be a string",
          object |-> [this EXCEPT !.webhookSecret = secret]]
    ELSE [outcome |-> "return", error |-> "",
          object |-> [this EXCEPT !.webhookSecret = secret]]

\* The setter assigning to apiSecret as well.
SetWebhookSecretOn_IntoApiSecret(this, secret) ==
    IF ~Truthy(secret) \/ TypeOf(secret) # "string"
    THEN [outcome |-> "throw",
          error |-> "Webhook secret is required and must be a string",
          object |-> this]
    ELSE [outcome |-> "return", error |-> "",
          object |-> [this EXCEPT !.webhookSecret = secret, !.apiSecret = secret]]

\* this.setWebhookSecret(secret): the client afterwards, and whether it threw.
SetWebhookSecretOn(this, secret) ==
    IF ~Truthy(secret) \/ TypeOf(secret) # "string"
    THEN [outcome |-> "throw",
          error |-> "Webhook secret is required and must be a string",
          object |-> this]
    ELSE [outcome |-> "return", error |-> "",
          object |-> [this EXCEPT !.webhookSecret = secret]]

----------------------------------------------------------------------------
(* verifyWebhookSignature.                                                 *)

\* The components object the forEach over signature.split(',') builds:
\* A parser that gives up on a header holding any key besides t and v1.
RECURSIVE Components_Strict(_, _)
Components_Strict(parts, i) ==
    IF i = 0 \/ \E j \in 1..i : Split(parts[j], "=")[1] \notin {"t", "v1"}
    THEN [k \in {} |-> Undefined]
    ELSE LET before == Components_Strict(parts, i - 1)
             kv == Split(parts[i], "=")
             key == kv[1]
             value == IF Len(kv) >= 2 THEN Str(kv[2]) ELSE Undefined
         IN  [k \in DOMAIN before \cup {key} |-> IF k = key THEN value ELSE before[k]]

\* [key, value] are the first two pieces of part.split('='), value is
\* undefined when there is one piece only, and a later part overwrites an
\* earlier one of the same key.
RECURSIVE Components(_, _)
Components(parts, i) ==
    IF i = 0 THEN [k \in {} |-> Undefined]
    ELSE LET before == Components(parts, i - 1)
             kv == Split(parts[i], "=")
             key == kv[1]
             value == IF Len(kv) >= 2 THEN Str(kv[2]) ELSE Undefined
         IN  [k \in DOMAIN before \cup {key} |-> IF k = key THEN value ELSE before[k]]

\* components.t, components.v1: undefined when the key was never assigned.
Get(components, key) ==
    IF key \in DOMAIN components THEN components[key] ELSE Undefined

\* The check with && in place of ||.
MissingComponents_Both(t, v1) == ~Truthy(t) /\ ~Truthy(v1)

\* !components.t || !components.v1
MissingComponents(t, v1) == ~Truthy(t) \/ ~Truthy(v1)

\* The window with >= in place of >.
TooOld_Inclusive(currentTime, timestamp) ==
    LET parsed == ParseInt(TemplateString(timestamp))
    IN  ~parsed.nan /\ currentTime - parsed.n >= MaxAgeSeconds

\* The window with the subtraction turned round.
TooOld_Reversed(currentTime, timestamp) ==
    LET parsed == ParseInt(TemplateString(timestamp))
    IN  ~parsed.nan /\ parsed.n - currentTime > MaxAgeSeconds

\* currentTime - parseInt(timestamp) > 900: false when parseInt gives NaN.
TooOld(currentTime, timestamp) ==
    LET parsed == ParseInt(TemplateString(timestamp))
    IN  ~parsed.nan /\ currentTime - parsed.n > MaxAgeSeconds

\* The signatures compared with ===.
CompareSignatures_Equality(providedSignature, expectedSignature) ==
    [kind |-> "boolean", b |-> providedSignature = Str(expectedSignature),
     by |-> "==="]

\* crypto.timingSafeEqual(Buffer.from(providedSignature),
\*                        Buffer.from(expectedSignature))
\* Buffer.from throws a TypeError on a value that is no string.  by: the
\* primitive the comparison is left to.
CompareSignatures(providedSignature, expectedSignature) ==
    (IF TypeOf(providedSignature) # "string" THEN Thrown("TypeError")
     ELSE timingSafeEqual(providedSignature.s, expectedSignature))
        @@ [by |-> "timingSafeEqual"]

\* The payload put into the signed text by String(payload).
PayloadString_ToString(payload) ==
    IF TypeOf(payload) = "string" THEN payload ELSE Str("[object Object]")

\* typeof payload === 'string' ? payload : JSON.stringify(payload)
PayloadString(payload) ==
    IF TypeOf(payload) = "string" THEN payload ELSE JSONStringify(payload)

\* What the try block comes to.  raised: the error it threw, "" when it
\* returned value.  hmacs: createHmac invocations.  compared: the primitive
\* that compared the signatures, "" when none did.
TryOutcome(raised, value, hmacs, compared) ==
    [raised |-> raised, value |-> value, hmacs |-> hmacs, compared |-> compared]

\* The try block of verifyWebhookSignature at Date.now() = dateNow.
VerifyTry(this, payload, signature, dateNow) ==
    IF TypeOf(signature) # "string"
    THEN \* signature.split is not a function, or signature is null / undefined
         TryOutcome("TypeError", FALSE, 0, "")
    ELSE
    LET parts == Split(signature.s, ",")
        components == Components(parts, Len(parts))
    IN  IF MissingComponents(Get(components, "t"), Get(components, "v1"))
        THEN TryOutcome("", FALSE, 0, "")
        ELSE
        LET timestamp == Get(components, "t")
            providedSignature == Get(components, "v1")
            currentTime == dateNow \div 1000
        IN  IF TooOld(currentTime, timestamp)
            THEN TryOutcome("", FALSE, 0, "")
            ELSE
            LET payloadString == PayloadString(payload)
            IN  IF payloadString.kind = "throw"
                THEN TryOutcome(payloadString.error, FALSE, 0, "")
                ELSE IF TypeOf(this.webhookSecret) # "string"
                THEN \* createHmac rejects a key that is no string
                     TryOutcome("TypeError", FALSE, 0, "")
                ELSE
                LET signedPayload == TemplateString(timestamp) \o "."
                                         \o TemplateString(payloadString)
                    expectedSignature == HmacSha256Hex(this.webhookSecret.s, signedPayload)
                    equal == CompareSignatures(providedSignature, expectedSignature)
                IN  IF equal.kind = "throw"
                    THEN TryOutcome(equal.error, FALSE, 1, equal.by)
                    ELSE TryOutcome("", equal.b, 1, equal.by)

\* A catch block that throws the error on.
Caught_Rethrown(try) ==
    [outcome |-> IF try.raised = "" THEN "return" ELSE "throw",
     value |-> IF try.raised = "" THEN try.value ELSE FALSE,
     error |-> try.raised, caught |-> "",
     hmacs |-> try.hmacs, compared |-> try.compared,
     logged |-> 0]

\* try { ... } catch (error) { console.error(...); return false; }
\* outcome/value/error: what the caller sees.  caught: the error the catch
\* block turned into false.  logged: console.error lines written.
Caught(try) ==
    [outcome |-> "return",
     value |-> IF try.raised = "" THEN try.value ELSE FALSE,
     error |-> "", caught |-> try.raised,
     hmacs |-> try.hmacs, compared |-> try.compared,
     logged |-> IF try.raised = "" THEN 0 ELSE 1]

\* The method with the secret looked at inside the try block only, where a
\* missing secret is one more error turned into false.
VerifyWebhookSignatureOn_Unguarded(this, payload, signature, dateNow) ==
    Caught(VerifyTry(this, payload, signature, dateNow))

\* this.verifyWebhookSignature(payload, signature) at Date.now() = dateNow.
VerifyWebhookSignatureOn(this, payload, signature, dateNow) ==
    IF ~Truthy(this.webhookSecret)
    THEN [outcome |-> "throw", value |-> FALSE,
          error |-> "Webhook secret not set. Call setWebhookSecret() first.",
          caught |-> "", hmacs |-> 0, compared |-> "", logged |-> 0]
    ELSE Caught(VerifyTry(this, payload, signature, dateNow))

----------------------------------------------------------------------------
(* generateToken.                                                          *)

\* crypto.randomUUID(): the n-th value drawn.  Version-4 UUIDs are 122
\* random bits; the model takes each draw to be a value not drawn before.
RandomUUID(n) == Str("uuid-" \o NumberToString(n))

\* jwt.sign(payload, secretOrPrivateKey, options): the compact token, held
\* as what it decodes and verifies to, or the library's throw when the
\* signing primitive fails (fault).
JwtSign(payload, secretOrPrivateKey, options, fault) ==
    IF fault THEN Thrown("JWT signing error")
    ELSE [kind |-> "jwt",
          header |-> [alg |-> options.algorithm, typ |-> "JWT"],
          payload |-> payload,
          signedWith |-> secretOrPrivateKey]

\* new Date(value): the instant, in milliseconds since the epoch.
NewDate(value) == [kind |-> "date", ms |-> value]

\* The claims with the signing secret in the place of the API key.
TokenPayload_SecretAsKey(this, userId, deviceInfo, jti, now, expiresAt) ==
    [user_id |-> userId,
     api_key |-> this.apiSecret,
     org_id |-> this.orgId,
     device |-> deviceInfo,
     jti |-> jti,
     iat |-> now,
     exp |-> expiresAt]

\* The claims with api_key and org_id taken from each other's field.
TokenPayload_Swapped(this, userId, deviceInfo, jti, now, expiresAt) ==
    [user_id |-> userId,
     api_key |-> this.orgId,
     org_id |-> this.apiKey,
     device |-> deviceInfo,
     jti |-> jti,
     iat |-> now,
     exp |-> expiresAt]

\* The claims with a jti made of the user and the second of issue.
TokenPayload_JtiFromClaims(this, userId, deviceInfo, jti, now, expiresAt) ==
    [user_id |-> userId,
     api_key |-> this.apiKey,
     org_id |-> this.orgId,
     device |-> deviceInfo,
     jti |-> Str(TemplateString(userId) \o "-" \o NumberToString(now)),
     iat |-> now,
     exp |-> expiresAt]

\* The claims generateToken signs.
TokenPayload(this, userId, deviceInfo, jti, now, expiresAt) ==
    [user_id |-> userId,
     api_key |-> this.apiKey,
     org_id |-> this.orgId,
     device |-> deviceInfo,
     jti |-> jti,
     iat |-> now,
     exp |-> expiresAt]

\* The Date built from seconds where milliseconds are due.
ExpiresAtDate_Seconds(expiresAt) == NewDate(expiresAt)

\* expiresAt: new Date(expiresAt * 1000)
ExpiresAtDate(expiresAt) == NewDate(expiresAt * 1000)

\* The check with only an absent userId refused.
UserIdMissing_AbsentOnly(userId) == userId = Undefined

\* !userId
UserIdMissing(userId) == ~Truthy(userId)

\* The message without the cause.
TokenError_NoCause(cause) == "Failed to generate token"

\* `Failed to generate token: ${error.message}`
TokenError(cause) == "Failed to generate token: " \o cause

\* this.generateToken(params) at Date.now() = dateNow, where crypto.randomUUID
\* hands out its uuid-th value and jwt.sign fails or not.  draws and signs
\* count the randomUUID and jwt.sign invocations; signed is what jwt.sign was
\* given.
GenerateTokenOn(this, params, dateNow, uuid, fault) ==
    LET userId == params.userId
        deviceInfo == IF params.deviceInfo.kind = "undefined" THEN Obj(<< >>)
                      ELSE params.deviceInfo
        expirationSeconds == IF params.expirationSeconds.kind = "undefined"
                             THEN Num(this.defaultExpirationSeconds)
                             ELSE params.expirationSeconds
    IN  IF UserIdMissing(userId)
        THEN [outcome |-> "throw", error |-> "userId is required",
              draws |-> 0, signs |-> 0]
        ELSE
        LET now == dateNow \div 1000
            expiresAt == now + expirationSeconds.n
            payload == TokenPayload(this, userId, deviceInfo, RandomUUID(uuid), now, expiresAt)
            key == this.apiSecret
            options == [algorithm |-> "HS256"]
            token == JwtSign(payload, key, options, fault)
        IN  IF token.kind = "throw"
            THEN [outcome |-> "throw",
                  error |-> TokenError(token.error),
                  draws |-> 1, signs |-> 1,
                  signed |-> [payload |-> payload, key |-> key, options |-> options]]
            ELSE [outcome |-> "return", error |-> "",
                  draws |-> 1, signs |-> 1,
                  signed |-> [payload |-> payload, key |-> key, options |-> options],
                  value |-> [token |-> token, expiresAt |-> ExpiresAtDate(expiresAt)]]

----------------------------------------------------------------------------
(* ServerAPI.                                                              *)

\* obj.key: the property's value, undefined when obj has none of that name.
RECURSIVE PropFrom(_, _, _)
PropFrom(props, key, i) ==
    IF i = 0 THEN Undefined
    ELSE IF props[i].k = key THEN props[i].v
    ELSE PropFrom(props, key, i - 1)

PropOf(obj, key) == PropFrom(obj.props, key, Len(obj.props))

\* String.prototype.trim(), for the blank as the only white space.
RECURSIVE Trim(_)
Trim(s) ==
    IF s = "" THEN ""
    ELSE IF CharAt(s, 1) = " " THEN Trim(Substring(s, 2, Len(s)))
    ELSE IF CharAt(s, Len(s)) = " " THEN Trim(Substring(s, 1, Len(s) - 1))
    ELSE s

\* !v || typeof v !== 'string' || !v.trim()
NotNonEmptyString(v) ==
    ~Truthy(v) \/ TypeOf(v) # "string" \/ Trim(v.s) = ""

\* The validation with the check of email and phone left out.
validateUserInfo_ContactUnchecked(userInfo) ==
    LET userId == PropOf(userInfo, "userId")
        fullName == PropOf(userInfo, "fullName")
    IN  CASE NotNonEmptyString(userId) ->
                "userId is required and must be a non-empty string"
          [] NotNonEmptyString(fullName) ->
                "fullName is required and must be a non-empty string"
          [] OTHER -> ""

\* validateUserInfo(userInfo): the message of the error thrown, "" when none.
validateUserInfo(userInfo) ==
    LET userId == PropOf(userInfo, "userId")
        fullName == PropOf(userInfo, "fullName")
        email == PropOf(userInfo, "email")
        phone == PropOf(userInfo, "phone")
    IN  CASE NotNonEmptyString(userId) ->
                "userId is required and must be a non-empty string"
          [] NotNonEmptyString(fullName) ->
                "fullName is required and must be a non-empty string"
          [] ~Truthy(email) /\ ~Truthy(phone) ->
                "At least one of email or phone must be provided"
          [] Truthy(email) /\ TypeOf(email) # "string" -> "email must be a string"
          [] Truthy(phone) /\ TypeOf(phone) # "string" -> "phone must be a string"
          [] OTHER -> ""

\* getServerEndpoint(name, {uid}): the users endpoint of uid.
getServerEndpoint(uid) == "/api/v1/server/users/" \o TemplateString(uid)

\* The headers of a ServerAPI that never took its token in.
ServerAPIHeaders_Unset(token) ==
    [Authorization |-> [bearer |-> Undefined], ContentType |-> "application/json"]

\* new ServerAPI(token).headers
ServerAPIHeaders(token) ==
    [Authorization |-> [bearer |-> token], ContentType |-> "application/json"]

\* The request with the default in place of the expirySeconds passed in.
CreateUserRequest_DefaultExpiry(token, uid, userInfo, deviceInfo, expirySeconds) ==
    LET base == << Prop("expiry_seconds", Num(86400)), Prop("user_info", userInfo) >>
        payload == IF Truthy(deviceInfo)
                   THEN Obj(base \o << Prop("device_info", deviceInfo) >>)
                   ELSE Obj(base)
    IN  [method |-> "POST", url |-> getServerEndpoint(uid),
         headers |-> ServerAPIHeaders(token), body |-> JSONStringify(payload)]

\* The fetch call of ServerAPI.createUser.
CreateUserRequest(token, uid, userInfo, deviceInfo, expirySeconds) ==
    LET base == << Prop("expiry_seconds", expirySeconds), Prop("user_info", userInfo) >>
        payload == IF Truthy(deviceInfo)
                   THEN Obj(base \o << Prop("device_info", deviceInfo) >>)
                   ELSE Obj(base)
    IN  [method |-> "POST", url |-> getServerEndpoint(uid),
         headers |-> ServerAPIHeaders(token), body |-> JSONStringify(payload)]

\* The fetch call of ServerAPI.deleteUser.
DeleteUserRequest(token, uid) ==
    [method |-> "DELETE", url |-> getServerEndpoint(uid),
     headers |-> ServerAPIHeaders(token), body |-> Undefined]

ServerAPIError(message, statusCode, responseData) ==
    [name |-> "ServerAPIError", message |-> message,
     statusCode |-> statusCode, responseData |-> responseData]

\* The error of the outer try block thrown on as it came.
NetworkError_Unwrapped(verb, error) ==
    [name |-> "Error", message |-> error,
     statusCode |-> Undefined, responseData |-> Undefined]

\* new ServerAPIError(`Network error while creating user: ${error}`)
NetworkError(verb, error) ==
    ServerAPIError("Network error while " \o verb.ger \o " user: " \o error,
                   Undefined, Undefined)

\* What a ServerAPI method makes of the settled fetch.  reply.kind is
\* "rejected" when fetch rejects (no response), else reply has ok, status
\* and json: the parsed body, or a throw when response.json() rejects.
\* verb is [inf |-> "create", ger |-> "creating"] or the like for delete.
ServerAPISettle(verb, reply) ==
    IF reply.kind = "rejected"
    THEN [outcome |-> "throw",
          error |-> NetworkError(verb, reply.error)]
    ELSE IF reply.ok
    THEN IF reply.json.kind = "throw"
         THEN [outcome |-> "throw",
               error |-> NetworkError(verb, reply.json.error)]
         ELSE [outcome |-> "return", value |-> reply.json]
    ELSE [outcome |-> "throw",
          error |-> ServerAPIError("Failed to " \o verb.inf \o " user: " \o NumberToString(reply.status),
                                   Num(reply.status),
                                   IF reply.json.kind = "throw" THEN Undefined ELSE reply.json)]

----------------------------------------------------------------------------
(* The values the callers and the environment supply.                      *)

StartSeconds == 1000    \* the clock's first reading, in seconds

Configs ==
    [apiKey : {Str("ak"), Str(""), Undefined},
     apiSecret : {Str("as"), Str(""), Undefined},
     orgId : {Str("org"), Str(""), Undefined}]

WebhookSecrets == {"wa", "wb"}
SecretArgs == {Str(k) : k \in WebhookSecrets} \cup {Str(""), Num(123), Undefined}

UserIds == {Str("u1"), Str("u2"), Str(""), Undefined}
DeviceInfos == {Undefined, Obj(<< Prop("os", Str("iOS")) >>)}
ExpirationArgs == {Undefined, Num(60), Num(0), Num(-60)}

\* createUser's userInfo: not an object at all, two valid users, and objects
\* with a blank or empty userId, an empty fullName, neither email nor phone.
UserInfoOf(userId, fullName, contact) ==
    Obj(<< Prop("userId", userId), Prop("fullName", fullName) >> \o contact)
Email == << Prop("email", Str("a@x.io")) >>
Phone == << Prop("phone", Str("+15550100")) >>
Device == Obj(<< Prop("os", Str("iOS")) >>)
\* createUser's argument lists.
CreateUserArgs ==
    {[userInfo |-> Null, deviceInfo |-> Undefined, expirySeconds |-> Undefined],
     [userInfo |-> Str("invalid"), deviceInfo |-> Device, expirySeconds |-> Num(60)],
     [userInfo |-> UserInfoOf(Str("u1"), Str("Ann"), Email),
      deviceInfo |-> Device, expirySeconds |-> Undefined],
     [userInfo |-> UserInfoOf(Str("u1"), Str("Ann"), Email),
      deviceInfo |-> Undefined, expirySeconds |-> Num(60)],
     [userInfo |-> UserInfoOf(Str("u2"), Str("Bob"), Phone),
      deviceInfo |-> Undefined, expirySeconds |-> Num(0)],
     [userInfo |-> UserInfoOf(Str("  "), Str("Ann"), Email),
      deviceInfo |-> Undefined, expirySeconds |-> Undefined],
     [userInfo |-> UserInfoOf(Str(""), Str("Ann"), Email),
      deviceInfo |-> Device, expirySeconds |-> Undefined],
     [userInfo |-> UserInfoOf(Str("u1"), Str(""), Email),
      deviceInfo |-> Undefined, expirySeconds |-> Undefined],
     [userInfo |-> UserInfoOf(Str("u2"), Str("Bob"), << >>),
      deviceInfo |-> Device, expirySeconds |-> Num(60)]}
Uids == {Str("u1"), Str("u2"), Str(""), Null, Num(123)}

\* How fetch settles: a 2xx with a JSON body, a 2xx whose body is no JSON,
\* a 4xx with a JSON body, a 5xx whose body is no JSON, no response at all.
\* text is the body as sent, json what response.json() makes of it.
Replies ==
    {[kind |-> "response", ok |-> TRUE, status |-> 200,
      text |-> "{\"status\":\"success\"}",
      json |-> Obj(<< Prop("status", Str("success")) >>)],
     [kind |-> "response", ok |-> TRUE, status |-> 200,
      text |-> "OK", json |-> Thrown("SyntaxError")],
     [kind |-> "response", ok |-> FALSE, status |-> 400,
      text |-> "{\"detail\":\"bad request\"}",
      json |-> Obj(<< Prop("detail", Str("bad request")) >>)],
     [kind |-> "response", ok |-> FALSE, status |-> 500,
      text |-> "Internal Server Error", json |-> Thrown("SyntaxError")],
     [kind |-> "rejected", error |-> "TypeError: fetch failed"]}

\* What the webhook sender signs and sends.  A sender holding secret k signs
\* the body b at timestamp text t as the header t=<t>,v1=<hex hmac>.
IdJson == "{\"id\":\"1\"}"
Bodies == {IdJson, "hi"}
SignTimes == {StartSeconds, StartSeconds + MaxAgeSeconds}
Timestamps == {NumberToString(T) : T \in SignTimes} \cup {"abc"}

SenderSignature(k, t, b) == HmacSha256Hex(k, t \o "." \o b)
SenderHeader(k, t, b) == "t=" \o t \o ",v1=" \o SenderSignature(k, t, b)

\* One hex digit of sig replaced by another.
FlipAt(sig, i) ==
    Substring(sig, 1, i - 1) \o (IF CharAt(sig, i) = "0" THEN "1" ELSE "0")
        \o Substring(sig, i + 1, Len(sig))

Altered(sig) == {FlipAt(sig, 1), FlipAt(sig, Len(sig)), Substring(sig, 1, Len(sig) - 1)}

\* The payload arguments: a body as a string, the object whose JSON text is
\* IdJson, and an object JSON.stringify cannot serialise.
Payloads == {Str(b) : b \in Bodies} \cup {Obj(<< Prop("id", Str("1")) >>), Circular}

\* Headers as a sender builds them, for either secret.
SignedHeaders ==
    {SenderHeader(k, t, b) : k \in WebhookSecrets, t \in Timestamps, b \in Bodies}
\* A signature moved under another timestamp.
RetimedHeaders ==
    {"t=" \o t \o ",v1=" \o SenderSignature("wa", u, b) :
        t \in Timestamps, u \in Timestamps, b \in Bodies}
\* A signature with one digit changed or one digit short.
AlteredHeaders ==
    UNION {{"t=" \o t \o ",v1=" \o a : a \in Altered(SenderSignature("wa", t, b))} :
            t \in Timestamps, b \in Bodies}
\* Other keys, another order, a third piece, repeated keys, a timestamp
\* with a tail.
ExtendedHeaders ==
    UNION {{"v0=00," \o SenderHeader("wa", t, IdJson),
            SenderHeader("wa", t, IdJson) \o ",x=1",
            "v1=" \o SenderSignature("wa", t, IdJson) \o ",t=" \o t,
            "t=" \o t \o "=9,v1=" \o SenderSignature("wa", t, IdJson),
            SenderHeader("wa", t, IdJson) \o ",v1=00",
            "t=0," \o SenderHeader("wa", t, IdJson),
            SenderHeader("wa", t \o "x", IdJson)} :
            t \in Timestamps}
MalformedHeaders ==
    {"garbage", "t=" \o NumberToString(StartSeconds), "v1=abc", "", "t=,v1=",
     "t=" \o NumberToString(StartSeconds) \o ",v1=", ",", "="}

SignatureArgs ==
    {Str(h) : h \in SignedHeaders \cup RetimedHeaders \cup AlteredHeaders
                      \cup ExtendedHeaders \cup MalformedHeaders}
        \cup {Undefined, Null, Num(5)}

Webhooks == [payload : Payloads, signature : SignatureArgs]
NoWebhook == [payload |-> Undefined, signature |-> Undefined]

\* The clock moves by half a second or by the fifteen-minute window.
ClockSteps == {500, MaxAgeSeconds * 1000}

\* How many steps brought the clock to its reading.
Ticks(ms) ==
    LET elapsed == ms - StartSeconds * 1000
    IN  (elapsed \div (MaxAgeSeconds * 1000)) + ((elapsed % (MaxAgeSeconds * 1000)) \div 500)

NoCall == [op |-> "none"]

----------------------------------------------------------------------------
(* Actions.  Each sets last to its own call; a step of the clock clears it. *)

InitClient ==
    /\ client = NoClient
    /\ clock = StartSeconds * 1000
    /\ uuids = 0
    /\ jtis = << >>
    /\ calls = {}
    /\ last = NoCall

\* A webhook request is at hand from the start.
Init ==
    /\ InitClient
    /\ webhook \in Webhooks

\* No webhook request is at hand.
InitIssuer ==
    /\ InitClient
    /\ webhook = NoWebhook

\* Time passes.
Tick ==
    /\ Ticks(clock) < MaxTicks
    /\ \E step \in ClockSteps : clock' = clock + step
    /\ last' = NoCall
    /\ UNCHANGED <<client, uuids, jtis, calls, webhook>>

\* new ContactsManagerClient(config)
constructor ==
    /\ client = NoClient
    /\ \E config \in Configs :
          LET res == NewClient(config)
          IN  /\ client' = res.object
              /\ last' = [op |-> "constructor", config |-> config, res |-> res]
    /\ UNCHANGED <<clock, uuids, jtis, calls, webhook>>

\* client.setWebhookSecret(secret)
setWebhookSecret ==
    /\ client # NoClient
    /\ \E secret \in SecretArgs :
          LET res == SetWebhookSecretOn(client, secret)
          IN  /\ client' = res.object
              /\ last' = [op |-> "setWebhookSecret", secret |-> secret,
                          before |-> client.webhookSecret,
                          res |-> [outcome |-> res.outcome, error |-> res.error]]
    /\ UNCHANGED <<clock, uuids, jtis, calls, webhook>>

\* client.verifyWebhookSignature(payload, signature) on the request at hand
verifyWebhookSignature ==
    /\ client # NoClient
    /\ webhook # NoWebhook
    /\ last' = [op |-> "verifyWebhookSignature",
                payload |-> webhook.payload, signature |-> webhook.signature,
                secret |-> client.webhookSecret, at |-> clock,
                res |-> VerifyWebhookSignatureOn(client, webhook.payload,
                                                 webhook.signature, clock)]
    /\ UNCHANGED <<client, clock, uuids, jtis, calls, webhook>>

\* client.generateToken(params)
generateToken ==
    /\ client # NoClient
    /\ uuids < MaxTokens
    /\ \E userId \in UserIds, deviceInfo \in DeviceInfos,
          expirationSeconds \in ExpirationArgs, fault \in BOOLEAN :
          LET params == [userId |-> userId, deviceInfo |-> deviceInfo,
                         expirationSeconds |-> expirationSeconds]
              res == GenerateTokenOn(client, params, clock, uuids + 1, fault)
          IN  /\ uuids' = uuids + res.draws
              /\ jtis' = IF res.outcome = "return"
                         THEN Append(jtis, res.value.token.payload.jti) ELSE jtis
              /\ last' = [op |-> "generateToken", params |-> params, at |-> clock,
                          fault |-> fault, res |-> res]
    /\ UNCHANGED <<client, clock, calls, webhook>>

\* A createUser or deleteUser call suspended at an await.
Call(op, args, uid, userInfo, deviceInfo, expirySeconds, minted) ==
    [op |-> op, pc |-> "minted", args |-> args, uid |-> uid, userInfo |-> userInfo,
     deviceInfo |-> deviceInfo, expirySeconds |-> expirySeconds,
     tokenData |-> minted.value, signed |-> minted.signed, mintedAt |-> minted.at,
     request |-> Undefined]

\* client.createUser(userInfo, deviceInfo, expirySeconds), up to its
\* `await this.generateToken(...)`.
createUser ==
    /\ client # NoClient
    /\ uuids < MaxTokens
    /\ Cardinality(calls) < MaxCalls
    /\ \E args \in CreateUserArgs, fault \in BOOLEAN :
          LET userInfo == args.userInfo
              deviceInfo == args.deviceInfo
              expirySeconds == IF args.expirySeconds.kind = "undefined"
                               THEN Num(DefaultExpirySeconds) ELSE args.expirySeconds
          IN  IF ~Truthy(userInfo) \/ TypeOf(userInfo) # "object"
              THEN /\ last' = [op |-> "createUser", args |-> args, at |-> clock,
                               res |-> [outcome |-> "throw", draws |-> 0, signs |-> 0,
                                        error |-> "userInfo is required and must be a UserInfo object"]]
                   /\ UNCHANGED <<uuids, jtis, calls>>
              ELSE
              LET uid == PropOf(userInfo, "userId")
                  minted == GenerateTokenOn(client,
                                [userId |-> uid, deviceInfo |-> deviceInfo,
                                 expirationSeconds |-> expirySeconds],
                                clock, uuids + 1, fault)
              IN  /\ uuids' = uuids + minted.draws
                  /\ IF minted.outcome = "throw"
                     THEN /\ last' = [op |-> "createUser", args |-> args, at |-> clock,
                                      fault |-> fault, res |-> minted]
                          /\ UNCHANGED <<jtis, calls>>
                     ELSE /\ jtis' = Append(jtis, minted.value.token.payload.jti)
                          /\ calls' = calls \cup
                                {Call("createUser", args, uid, userInfo, deviceInfo, expirySeconds,
                                      [minted EXCEPT !.outcome = "return"] @@ [at |-> clock])}
                          /\ last' = [op |-> "createUser", args |-> args, at |-> clock,
                                      fault |-> fault,
                                      res |-> [outcome |-> "await", draws |-> 1, signs |-> 1]]
    /\ UNCHANGED <<client, clock, webhook>>

\* A createUser that keeps its token in a field of the client all calls
\* share, and after the await sends what the field then holds: the token
\* minted last among the calls in flight.
createUserFetch_SharedToken ==
    /\ \E call \in calls :
          /\ call.op = "createUser"
          /\ call.pc = "minted"
          /\ LET invalid == validateUserInfo(call.userInfo)
                 issued(c) == CHOOSE i \in 1..Len(jtis) :
                                 jtis[i] = c.tokenData.token.payload.jti
                 held == CHOOSE c \in calls : \A d \in calls : issued(c) >= issued(d)
                 request == CreateUserRequest(held.tokenData.token, call.uid, call.userInfo,
                                              call.deviceInfo, call.expirySeconds)
             IN  IF invalid # ""
                 THEN /\ calls' = calls \ {call}
                      /\ last' = [op |-> "createUser", call |-> call, at |-> clock,
                                  res |-> [outcome |-> "throw", error |-> invalid]]
                 ELSE /\ calls' = (calls \ {call}) \cup
                                  {[call EXCEPT !.pc = "fetching", !.request = request]}
                      /\ last' = [op |-> "fetch", call |-> call, at |-> clock,
                                  request |-> request]
    /\ UNCHANGED <<client, clock, uuids, jtis, webhook>>

\* createUser after the await: new ServerAPI(token).createUser(...) up to
\* its `await fetch(...)`.
createUserFetch ==
    /\ \E call \in calls :
          /\ call.op = "createUser"
          /\ call.pc = "minted"
          /\ LET invalid == validateUserInfo(call.userInfo)
                 request == CreateUserRequest(call.tokenData.token, call.uid, call.userInfo,
                                              call.deviceInfo, call.expirySeconds)
             IN  IF invalid # ""
                 THEN /\ calls' = calls \ {call}
                      /\ last' = [op |-> "createUser", call |-> call, at |-> clock,
                                  res |-> [outcome |-> "throw", error |-> invalid]]
                 ELSE /\ calls' = (calls \ {call}) \cup
                                  {[call EXCEPT !.pc = "fetching", !.request = request]}
                      /\ last' = [op |-> "fetch", call |-> call, at |-> clock,
                                  request |-> request]
    /\ UNCHANGED <<client, clock, uuids, jtis, webhook>>

\* A createUser that sends its request again when fetch is rejected.
createUserSettle_Retry ==
    /\ \E call \in calls, reply \in Replies :
          /\ call.op = "createUser"
          /\ call.pc = "fetching"
          /\ calls' = IF reply.kind = "rejected"
                      THEN (calls \ {call}) \cup {[call EXCEPT !.pc = "minted"]}
                      ELSE calls \ {call}
          /\ last' = [op |-> "createUser", call |-> call, at |-> clock, reply |-> reply,
                      res |-> ServerAPISettle([inf |-> "create", ger |-> "creating"], reply)]
    /\ UNCHANGED <<client, clock, uuids, jtis, webhook>>

\* ServerAPI.createUser once fetch has settled: the call's outcome.
createUserSettle ==
    /\ \E call \in calls, reply \in Replies :
          /\ call.op = "createUser"
          /\ call.pc = "fetching"
          /\ calls' = calls \ {call}
          /\ last' = [op |-> "createUser", call |-> call, at |-> clock, reply |-> reply,
                      res |-> ServerAPISettle([inf |-> "create", ger |-> "creating"], reply)]
    /\ UNCHANGED <<client, clock, uuids, jtis, webhook>>

\* client.deleteUser(uid), up to its `await this.generateToken(...)`.
deleteUser ==
    /\ client # NoClient
    /\ uuids < MaxTokens
    /\ Cardinality(calls) < MaxCalls
    /\ \E uid \in Uids, fault \in BOOLEAN :
          IF ~Truthy(uid) \/ TypeOf(uid) # "string"
          THEN /\ last' = [op |-> "deleteUser", args |-> [uid |-> uid], at |-> clock,
                           res |-> [outcome |-> "throw", draws |-> 0, signs |-> 0,
                                    error |-> "User ID is required and must be a string"]]
               /\ UNCHANGED <<uuids, jtis, calls>>
          ELSE
          LET minted == GenerateTokenOn(client,
                            [userId |-> uid, deviceInfo |-> Undefined,
                             expirationSeconds |-> Undefined],
                            clock, uuids + 1, fault)
          IN  /\ uuids' = uuids + minted.draws
              /\ IF minted.outcome = "throw"
                 THEN /\ last' = [op |-> "deleteUser", args |-> [uid |-> uid], at |-> clock,
                                  fault |-> fault, res |-> minted]
                      /\ UNCHANGED <<jtis, calls>>
                 ELSE /\ jtis' = Append(jtis, minted.value.token.payload.jti)
                      /\ calls' = calls \cup
                            {Call("deleteUser", [uid |-> uid], uid, Undefined, Undefined, Undefined,
                                  minted @@ [at |-> clock])}
                      /\ last' = [op |-> "deleteUser", args |-> [uid |-> uid], at |-> clock,
                                  fault |-> fault,
                                  res |-> [outcome |-> "await", draws |-> 1, signs |-> 1]]
    /\ UNCHANGED <<client, clock, webhook>>

\* deleteUser after the await: new ServerAPI(token).deleteUser(uid) up to
\* its `await fetch(...)`.
deleteUserFetch ==
    /\ \E call \in calls :
          /\ call.op = "deleteUser"
          /\ call.pc = "minted"
          /\ LET request == DeleteUserRequest(call.tokenData.token, call.uid)
             IN  /\ calls' = (calls \ {call}) \cup
                             {[call EXCEPT !.pc = "fetching", !.request = request]}
                 /\ last' = [op |-> "fetch", call |-> call, at |-> clock,
                             request |-> request]
    /\ UNCHANGED <<client, clock, uuids, jtis, webhook>>

\* ServerAPI.deleteUser once fetch has settled: the call's outcome.
deleteUserSettle ==
    /\ \E call \in calls, reply \in Replies :
          /\ call.op = "deleteUser"
          /\ call.pc = "fetching"
          /\ calls' = calls \ {call}
          /\ last' = [op |-> "deleteUser", call |-> call, at |-> clock, reply |-> reply,
                      res |-> ServerAPISettle([inf |-> "delete", ger |-> "deleting"], reply)]
    /\ UNCHANGED <<client, clock, uuids, jtis, webhook>>

----------------------------------------------------------------------------
(* Specifications.                                                         *)

\* The webhook verifier: a webhook request, drawn at the start, is verified
\* and verified again as the client is built, the secret set and time passes.
NextWebhook ==
    \/ constructor
    \/ setWebhookSecret
    \/ verifyWebhookSignature
    \/ Tick

SpecWebhook == Init /\ [][NextWebhook]_vars

\* The token issuer: construction, generateToken, time.
NextToken ==
    \/ constructor
    \/ generateToken
    \/ Tick

SpecToken == InitIssuer /\ [][NextToken]_vars

\* The issuer and the user calls that mint through it, all within one
\* reading of the clock.
NextUsers ==
    \/ constructor
    \/ generateToken
    \/ createUser
    \/ createUserFetch
    \/ createUserSettle
    \/ deleteUser
    \/ deleteUserFetch
    \/ deleteUserSettle

SpecUsers == InitIssuer /\ [][NextUsers]_vars

\* Every operation of the client, for a caller that awaits each createUser
\* and deleteUser call before making the next, within one reading of the
\* clock, on one of two webhook requests: a body rightly signed under the first secret,
\* and a header without a signature.
SampleWebhooks ==
    {[payload |-> Str(IdJson),
      signature |-> Str(SenderHeader("wa", NumberToString(StartSeconds), IdJson))],
     [payload |-> Str(IdJson), signature |-> Str("garbage")]}

InitSample ==
    /\ InitClient
    /\ webhook \in SampleWebhooks

NextClient ==
    \/ constructor
    \/ setWebhookSecret
    \/ verifyWebhookSignature
    \/ generateToken
    \/ calls = {} /\ createUser
    \/ createUserFetch
    \/ createUserSettle
    \/ calls = {} /\ deleteUser
    \/ deleteUserFetch
    \/ deleteUserSettle

SpecClient == InitSample /\ [][NextClient]_vars

\* The whole client.
Next ==
    \/ constructor
    \/ setWebhookSecret
    \/ verifyWebhookSignature
    \/ generateToken
    \/ createUser
    \/ createUserFetch
    \/ createUserSettle
    \/ deleteUser
    \/ deleteUserFetch
    \/ deleteUserSettle
    \/ Tick

Spec == Init /\ [][Next]_vars

----------------------------------------------------------------------------
(* Properties of the webhook verifier, checked under SpecWebhook.          *)

\* The step just taken was a verifyWebhookSignature call.
Verified == last.op = "verifyWebhookSignature"

\* The call was made on a client holding a webhook secret, with a string
\* for a header.
VerifiedHeader ==
    /\ Verified
    /\ Truthy(last.secret)
    /\ TypeOf(last.signature) = "string"

\* The text a sender signs for a payload: a string as it is, anything else
\* as JSON.stringify writes it.
Canonical(payload) ==
    IF TypeOf(payload) = "string" THEN payload.s ELSE JSONText(payload)

\* The value the header gives for key.
HeaderValue(header, key) ==
    LET parts == Split(header, ",")
    IN  Get(Components(parts, Len(parts)), key)

\* Some comma-separated piece of the header has key before its first "=".
HasKey(header, key) ==
    LET parts == Split(header, ",")
    IN  \E i \in 1..Len(parts) : Split(parts[i], "=")[1] = key

\* The call's reading of the clock, in whole seconds.
CurrentTime == last.at \div 1000

\* The call returned the boolean b.
Returned(b) == last.res.outcome = "return" /\ last.res.value = b

\* The header of the call carries t and v1, and v1 is the hex HMAC-SHA256,
\* under the client's secret, of t "." canonical payload.
ExactHmac ==
    /\ VerifiedHeader
    /\ last.payload # Circular
    /\ LET t == HeaderValue(last.signature.s, "t")
           v1 == HeaderValue(last.signature.s, "v1")
       IN  /\ Truthy(t) /\ Truthy(v1)
           /\ v1.s = HmacSha256Hex(last.secret.s,
                                   t.s \o "." \o Canonical(last.payload))

\* C1: verifyWebhookSignature returns true only if the header contains both
\* t and v1 and v1 equals the hex HMAC-SHA256, keyed by the webhook secret
\* the client holds, of t "." canonical payload; on a client holding a
\* secret, any other v1 yields false.
C1_TrueOnlyForExactHmac ==
    Verified =>
        /\ Returned(TRUE) => ExactHmac
        /\ (Truthy(last.secret) /\ ~ExactHmac) => Returned(FALSE)

\* C1's case: an object payload, verified true through its JSON text.
C1_Witness ==
    /\ Verified
    /\ TypeOf(last.payload) = "object"
    /\ Returned(TRUE)

\* The header of the call is the one a sender holding the client's secret
\* builds for the call's payload at timestamp T.
RoundTrip(T) ==
    /\ VerifiedHeader
    /\ last.payload # Circular
    /\ last.signature.s = SenderHeader(last.secret.s, NumberToString(T),
                                       Canonical(last.payload))

\* C2: a header t=T,v1=HMAC(secret, T "." payload) verified by a client
\* holding the same secret returns true at every current time with
\* currentTime - T <= 900 (T in the future included) and false at T + 901.
C2_RoundTrip ==
    \A T \in SignTimes :
        RoundTrip(T) =>
            /\ CurrentTime - T <= 900 => Returned(TRUE)
            /\ CurrentTime - T = 901 => Returned(FALSE)

\* C2's case: a round trip verified true exactly 900 seconds after T.
C2_Witness ==
    \E T \in SignTimes :
        /\ RoundTrip(T)
        /\ CurrentTime - T = 900
        /\ Returned(TRUE)

\* C3: on a client holding a secret, verifyWebhookSignature returns false
\* whenever currentTime - t > 900, whether or not v1 is the right
\* signature.
C3_StaleRejected ==
    VerifiedHeader =>
        \A T \in SignTimes \cup {0} :
            (/\ HeaderValue(last.signature.s, "t") = Str(NumberToString(T))
             /\ CurrentTime - T > 900)
                => Returned(FALSE)

\* C3's case: a rightly signed header, 901 seconds old, is refused.
C3_Witness ==
    \E T \in SignTimes :
        /\ RoundTrip(T)
        /\ CurrentTime - T = 901
        /\ Returned(FALSE)

\* C4: on a client on which no webhook secret has been set,
\* verifyWebhookSignature throws, whatever the payload and the header.
C4_ThrowsWithoutSecret ==
    (Verified /\ last.secret = Null) =>
        /\ last.res.outcome = "throw"
        /\ last.res.error = "Webhook secret not set. Call setWebhookSecret() first."

\* C4's case: the call throws on a header a sender signed a moment ago.
C4_Witness ==
    /\ Verified
    /\ last.secret = Null
    /\ \E k \in WebhookSecrets :
          last.signature = Str(SenderHeader(k, NumberToString(CurrentTime),
                                            Canonical(last.payload)))
    /\ last.res.outcome = "throw"

\* C5: on a client holding a secret, every verifyWebhookSignature call
\* returns a boolean and never throws, whatever the payload and the header;
\* an error raised while parsing, signing or comparing comes out as false.
C5_NeverThrowsWithSecret ==
    (Verified /\ Truthy(last.secret)) =>
        /\ last.res.outcome = "return"
        /\ last.res.value \in BOOLEAN
        /\ last.res.caught # "" => last.res.value = FALSE

\* C5's case: the comparison raised on signatures of unequal length and
\* the call returned false.
C5_Witness ==
    /\ Verified
    /\ Truthy(last.secret)
    /\ last.res.caught = "RangeError"
    /\ Returned(FALSE)

\* C6: on a client holding a secret, a header that lacks the key t or the
\* key v1 makes verifyWebhookSignature return false without computing an
\* HMAC or comparing any signature.
C6_MissingKeyRejected ==
    (/\ VerifiedHeader
     /\ ~HasKey(last.signature.s, "t") \/ ~HasKey(last.signature.s, "v1"))
        => /\ Returned(FALSE)
           /\ last.res.hmacs = 0
           /\ last.res.compared = ""
           /\ last.res.caught = ""

\* C6's case: the header v1=abc, which has no t.
C6_Witness ==
    /\ VerifiedHeader
    /\ last.signature = Str("v1=abc")
    /\ Returned(FALSE)
    /\ last.res.hmacs = 0

----------------------------------------------------------------------------
(* Properties of the token issuer, checked under SpecToken and SpecUsers.  *)

\* The step just taken was a generateToken call that returned a token.
Issued == last.op = "generateToken" /\ last.res.outcome = "return"

\* C7: every generateToken call that succeeds signs the claims user_id, the
\* userId argument, api_key and org_id, the client's apiKey and orgId, and
\* device, the deviceInfo argument or the empty mapping when it is left
\* out, with the client's apiSecret under HS256.
C7_TokenClaims ==
    Issued =>
        LET token == last.res.value.token
        IN  /\ token.payload.user_id = last.params.userId
            /\ token.payload.api_key = client.apiKey
            /\ token.payload.org_id = client.orgId
            /\ token.payload.device =
                   (IF last.params.deviceInfo = Undefined THEN Obj(<< >>)
                    ELSE last.params.deviceInfo)
            /\ token.signedWith = client.apiSecret
            /\ token.header.alg = "HS256"

\* C7's case: a token issued with deviceInfo left out.
C7_Witness ==
    /\ Issued
    /\ last.params.deviceInfo = Undefined
    /\ last.res.value.token.payload.device = Obj(<< >>)

\* C8: a token's exp is its iat plus expirationSeconds, iat being the time
\* of the call in whole seconds and expirationSeconds 86400 when left out;
\* the expiresAt returned is the instant of exp.
C8_Expiry ==
    Issued =>
        LET claims == last.res.value.token.payload
            expirationSeconds == IF last.params.expirationSeconds = Undefined
                                 THEN 86400
                                 ELSE last.params.expirationSeconds.n
        IN  /\ claims.iat = last.at \div 1000
            /\ claims.exp = claims.iat + expirationSeconds
            /\ last.res.value.expiresAt = NewDate(claims.exp * 1000)

\* C8's case: expirationSeconds left out, the call made within a second.
C8_Witness ==
    /\ Issued
    /\ last.params.expirationSeconds = Undefined
    /\ last.at % 1000 # 0
    /\ last.res.value.token.payload.exp = last.res.value.token.payload.iat + 86400

\* C9: no two tokens the client issued share a jti, those minted inside
\* createUser and deleteUser included, and those issued within one second
\* from the same arguments.
C9_JtiUnique ==
    /\ \A i, j \in 1..Len(jtis) : i # j => jtis[i] # jtis[j]
    /\ \A call \in calls :
          \E i \in 1..Len(jtis) : jtis[i] = call.tokenData.token.payload.jti

\* C9's case: two deleteUser calls for one user, minted in the same second.
C9_Witness ==
    /\ Len(jtis) = 2
    /\ \E c, d \in calls :
          /\ c # d
          /\ c.op = "deleteUser" /\ d.op = "deleteUser"
          /\ c.uid = d.uid
          /\ c.mintedAt = d.mintedAt

\* The step just taken was a construction.
Built == last.op = "constructor"

\* C10: constructing a client with apiKey, apiSecret or orgId empty or
\* missing throws and yields no client; with all three non-empty it
\* succeeds.
C10_Construction ==
    Built =>
        LET config == last.config
            complete == \A f \in {"apiKey", "apiSecret", "orgId"} :
                            TypeOf(config[f]) = "string" /\ config[f].s # ""
        IN  IF complete
            THEN /\ last.res.outcome = "return"
                 /\ client # NoClient
                 /\ client.apiKey = config.apiKey
                 /\ client.apiSecret = config.apiSecret
                 /\ client.orgId = config.orgId
            ELSE /\ last.res.outcome = "throw"
                 /\ client = NoClient

\* C10's case: only orgId is empty, and no client comes of it.
C10_Witness ==
    /\ Built
    /\ last.config = [apiKey |-> Str("ak"), apiSecret |-> Str("as"), orgId |-> Str("")]
    /\ last.res.outcome = "throw"
    /\ client = NoClient

\* The step just taken was a generateToken call.
Generated == last.op = "generateToken"

\* C11: generateToken called with an empty or missing userId fails with the
\* error 'userId is required' and issues no token: neither jwt.sign nor
\* randomUUID is invoked for that call.
C11_UserIdRequired ==
    (/\ Generated
     /\ last.params.userId \in {Str(""), Undefined})
        => /\ last.res.outcome = "throw"
           /\ last.res.error = "userId is required"
           /\ last.res.signs = 0
           /\ last.res.draws = 0
           /\ "value" \notin DOMAIN last.res

\* C11's case: the call with the empty string for a userId, refused.
C11_Witness ==
    /\ Generated
    /\ last.params.userId = Str("")
    /\ last.res.outcome = "throw"

\* C12: generateToken issues a token only for a positive expirationSeconds:
\* every token it returns has exp strictly greater than iat, and a call
\* with expirationSeconds <= 0 returns no token.
C12_PositiveExpiryOnly ==
    Generated =>
        /\ last.res.outcome = "return" =>
              last.res.value.token.payload.exp > last.res.value.token.payload.iat
        /\ (/\ TypeOf(last.params.expirationSeconds) = "number"
            /\ last.params.expirationSeconds.n <= 0)
              => last.res.outcome = "throw"

\* A call that reached jwt.sign and found it failing: generateToken itself,
\* or the first part of createUser or deleteUser.
SignFailed(call) ==
    /\ call.op \in {"generateToken", "createUser", "deleteUser"}
    /\ "fault" \in DOMAIN call
    /\ call.fault
    /\ call.res.signs = 1

\* C13: when jwt.sign fails, generateToken fails with 'Failed to generate
\* token: <message of the cause>' and returns no token; a createUser or
\* deleteUser call in which that happens fails the same way, is over, and
\* sends no HTTP request.
C13_SignFailureSurfaced ==
    [][SignFailed(last') =>
          /\ last'.res.outcome = "throw"
          /\ last'.res.error = "Failed to generate token: JWT signing error"
          /\ "value" \notin DOMAIN last'.res
          /\ calls' = calls
          /\ jtis' = jtis]_vars

\* C13's case: jwt.sign failed inside createUser.
C13_Witness ==
    /\ SignFailed(last)
    /\ last.op = "createUser"
    /\ last.res.outcome = "throw"

----------------------------------------------------------------------------
(* Properties of createUser and deleteUser, checked under SpecUsers.       *)

\* The calls whose HTTP request has been sent.
Fetching == {call \in calls : call.pc = "fetching"}

\* The step just taken sent a call's HTTP request.
Fetched == last.op = "fetch"

\* The step just taken ended a call whose fetch had settled.
Settled == last.op \in {"createUser", "deleteUser"} /\ "reply" \in DOMAIN last

\* The request carries, as its bearer credential, the token jwt.sign made
\* within the call from the call's own claims, a token on the issued list.
BearsOwnToken(call, request) ==
    LET token == request.headers.Authorization.bearer
    IN  /\ TypeOf(token) = "jwt"
        /\ token.payload = call.signed.payload
        /\ token.signedWith = call.signed.key
        /\ token.payload.user_id = call.uid
        /\ \E i \in 1..Len(jtis) : jtis[i] = token.payload.jti

\* C14: in every createUser and deleteUser call the HTTP request is sent
\* only after generateToken has succeeded within that call, and its
\* Authorization header bears exactly the token minted in that call; a
\* ServerAPIError can occur only after a token was produced.
C14_RequestBearsMintedToken ==
    /\ \A call \in Fetching : BearsOwnToken(call, call.request)
    /\ \A c, d \in Fetching :
          c # d => c.request.headers.Authorization # d.request.headers.Authorization
    /\ Fetched => BearsOwnToken(last.call, last.request)
    /\ Settled => BearsOwnToken(last.call, last.call.request)

\* C14's case: the request of a deleteUser call goes out while another call
\* is in flight with a token of its own.
C14_Witness ==
    /\ Fetched
    /\ last.call.op = "deleteUser"
    /\ Cardinality(calls) = 2
    /\ Fetching # {}

\* C15: when the remote service answers createUser or deleteUser with a
\* non-2xx status, the call fails with a ServerAPIError whose statusCode is
\* the response status and whose responseData is the response body, parsed,
\* or raw when it cannot be parsed.
C15_ErrorCarriesBody ==
    (Settled /\ last.reply.kind = "response" /\ ~last.reply.ok) =>
        /\ last.res.outcome = "throw"
        /\ last.res.error.name = "ServerAPIError"
        /\ last.res.error.statusCode = Num(last.reply.status)
        /\ last.res.error.responseData =
               (IF last.reply.json.kind = "throw" THEN Str(last.reply.text)
                ELSE last.reply.json)

\* C16: when the HTTP request of createUser or deleteUser fails at the
\* network level, the call fails with a ServerAPIError whose message starts
\* with 'Network error while creating user' / 'Network error while deleting
\* user' and which carries no status code.
C16_NetworkErrorWrapped ==
    (Settled /\ last.reply.kind = "rejected") =>
        LET start == IF last.op = "createUser"
                     THEN "Network error while creating user"
                     ELSE "Network error while deleting user"
        IN  /\ last.res.outcome = "throw"
            /\ last.res.error.name = "ServerAPIError"
            /\ Substring(last.res.error.message, 1, Len(start)) = start
            /\ last.res.error.statusCode = Undefined

\* C16's case: the fetch of a deleteUser call was rejected.
C16_Witness ==
    /\ Settled
    /\ last.op = "deleteUser"
    /\ last.reply.kind = "rejected"
    /\ last.res.outcome = "throw"

\* The userInfo is null or no object, or has an empty userId, an empty
\* fullName, or neither email nor phone.
InvalidUserInfo(userInfo) ==
    IF userInfo = Null \/ TypeOf(userInfo) # "object" THEN TRUE
    ELSE \/ PropOf(userInfo, "userId") \in {Str(""), Undefined}
         \/ PropOf(userInfo, "fullName") \in {Str(""), Undefined}
         \/ PropOf(userInfo, "email") = Undefined /\ PropOf(userInfo, "phone") = Undefined

\* The arguments a call was made with fail validation.
InvalidArgs(op, args) ==
    IF op = "createUser" THEN InvalidUserInfo(args.userInfo)
    ELSE args.uid = Str("") \/ TypeOf(args.uid) # "string"

\* C17: no HTTP request is sent by a call whose arguments fail validation:
\* such a call is never among those fetching, never sends, never gets to a
\* settled fetch, and where it ends it ends with an error.
C17_NoRequestOnInvalidArgs ==
    /\ \A call \in Fetching : ~InvalidArgs(call.op, call.args)
    /\ Fetched => ~InvalidArgs(last.call.op, last.call.args)
    /\ Settled => ~InvalidArgs(last.call.op, last.call.args)
    /\ (/\ last.op \in {"createUser", "deleteUser"}
        /\ "args" \in DOMAIN last
        /\ InvalidArgs(last.op, last.args)) => last.res.outcome \in {"throw", "await"}
    /\ (/\ last.op = "createUser"
        /\ "call" \in DOMAIN last
        /\ InvalidArgs(last.op, last.call.args)) => last.res.outcome = "throw"

\* C17's case: a createUser call with neither email nor phone ends, its
\* token minted, before any request.
C17_Witness ==
    /\ last.op = "createUser"
    /\ "call" \in DOMAIN last
    /\ InvalidUserInfo(last.call.args.userInfo)
    /\ last.call.pc = "minted"
    /\ last.res.outcome = "throw"
    /\ last.res.error = "At least one of email or phone must be provided"

\* C18: the createUser request is a POST to the users endpoint of
\* userInfo.userId whose JSON body has expiry_seconds, the expirySeconds
\* argument or 86400 when it is left out, user_info, the userInfo argument,
\* and device_info exactly when a deviceInfo argument was given; the token
\* it bears is minted with that same expirySeconds.
C18_CreateUserRequest ==
    \A call \in Fetching :
        call.op = "createUser" =>
            LET args == call.args
                expirySeconds == IF args.expirySeconds = Undefined THEN Num(86400)
                                 ELSE args.expirySeconds
                device == IF args.deviceInfo = Undefined THEN << >>
                          ELSE << Prop("device_info", args.deviceInfo) >>
                body == Obj(<< Prop("expiry_seconds", expirySeconds),
                               Prop("user_info", args.userInfo) >> \o device)
                claims == call.request.headers.Authorization.bearer.payload
            IN  /\ call.request.method = "POST"
                /\ call.request.url =
                       "/api/v1/server/users/" \o PropOf(args.userInfo, "userId").s
                /\ call.request.body = Str(JSONText(body))
                /\ claims.exp = claims.iat + expirySeconds.n

\* C18's case: a request for u1 with a device and no expirySeconds.
C18_Witness ==
    \E call \in Fetching :
        /\ call.op = "createUser"
        /\ call.args.expirySeconds = Undefined
        /\ call.request.url = "/api/v1/server/users/u1"
        /\ call.request.body = Str("{\"expiry_seconds\":86400,\"user_info\":{\"userId\":\"u1\",\"fullName\":\"Ann\",\"email\":\"a@x.io\"},\"device_info\":{\"os\":\"iOS\"}}")

----------------------------------------------------------------------------
(* Properties of the client's fields.                                      *)

\* C19: on any client the webhook secret is set at most once: after one
\* successful setWebhookSecret, a later setWebhookSecret call leaves the
\* stored secret as it was.
C19_SecretSetOnce ==
    (last.op = "setWebhookSecret" /\ Truthy(last.before)) =>
        client.webhookSecret = last.before

\* C20: after construction, apiKey, apiSecret and orgId of a client never
\* change: they are what the constructor was given, and every step of
\* generateToken, createUser, deleteUser, setWebhookSecret and
\* verifyWebhookSignature, successful or failing, leaves them as they were.
C20_CredentialsImmutable ==
    [][/\ client # NoClient =>
             /\ client' # NoClient
             /\ client'.apiKey = client.apiKey
             /\ client'.apiSecret = client.apiSecret
             /\ client'.orgId = client.orgId
       /\ (client = NoClient /\ client' # NoClient) =>
             /\ last'.op = "constructor"
             /\ client'.apiKey = last'.config.apiKey
             /\ client'.apiSecret = last'.config.apiSecret
             /\ client'.orgId = last'.config.orgId]_vars

\* C20's case: a client that has set its webhook secret and issued two
\* tokens, just after a verifyWebhookSignature call.
C20_Witness ==
    /\ client # NoClient
    /\ Truthy(client.webhookSecret)
    /\ Len(jtis) = 2
    /\ last.op = "verifyWebhookSignature"

----------------------------------------------------------------------------
(* Retries, canonical form, header keys, comparison.                       *)

\* C21: nothing is retried: each createUser or deleteUser call mints at
\* most one token and sends at most one HTTP request, and each generateToken
\* call invokes jwt.sign at most once, whatever the outcome.  Step by step:
\* a step draws and issues at most one token, and none once the call has
\* its token; a request goes out only for a call that has sent none; a call
\* whose fetch has settled is over.
C21_NothingRetried ==
    [][/\ uuids' <= uuids + 1
       /\ Len(jtis') <= Len(jtis) + 1
       /\ ("res" \in DOMAIN last' /\ "signs" \in DOMAIN last'.res) =>
             last'.res.signs <= 1 /\ last'.res.draws <= 1
       /\ "call" \in DOMAIN last' =>
             /\ uuids' = uuids
             /\ jtis' = jtis
             /\ last'.call \in calls
       /\ last'.op = "fetch" =>
             /\ last'.call.pc = "minted"
             /\ last'.call.request = Undefined
             /\ Cardinality({c \in calls' : c.pc = "fetching"})
                   = Cardinality({c \in calls : c.pc = "fetching"}) + 1
       /\ last'.op # "fetch" =>
             {c \in calls' : c.pc = "fetching"} \subseteq {c \in calls : c.pc = "fetching"}
       /\ ("reply" \in DOMAIN last') =>
             /\ last'.call.pc = "fetching"
             /\ \A c \in calls' : c.tokenData # last'.call.tokenData]_vars

\* C21's case: a createUser call whose fetch was rejected is over, one
\* token drawn and issued.
C21_Witness ==
    /\ last.op = "createUser"
    /\ "reply" \in DOMAIN last
    /\ last.reply.kind = "rejected"
    /\ calls = {}
    /\ uuids = 1
    /\ Len(jtis) = 1

\* The client as it was when the call of the latest step was made.
Verifier == [client EXCEPT !.webhookSecret = last.secret]

\* The call of the latest step made again on another payload or header
\* comes to the same: returns the same boolean, or throws as well.
SameResult(payload, signature) ==
    LET again == VerifyWebhookSignatureOn(Verifier, payload, signature, last.at)
    IN  /\ again.outcome = last.res.outcome
        /\ again.value = last.res.value

\* C22: for the same header, secret and time, verifying an object payload
\* and verifying the string equal to its JSON serialization give the same
\* result.
C22_Canonicalization ==
    (/\ Verified
     /\ TypeOf(last.payload) = "object"
     /\ last.payload \notin {Null, Circular})
        => SameResult(Str(JSONText(last.payload)), last.signature)

\* C22's case: an object payload verified true; so is its JSON text.
C22_Witness ==
    /\ Verified
    /\ last.payload = Obj(<< Prop("id", Str("1")) >>)
    /\ Returned(TRUE)
    /\ SameResult(Str(IdJson), last.signature)

\* key=value pairs of keys other than t and v1.
OtherPairs == {"x=1", "v0=00", "a=b,c=d"}

\* C23: keys of the signature header other than t and v1 are ignored:
\* pairs of other keys put after or before a header do not change the
\* result of verifyWebhookSignature.
C23_OtherKeysIgnored ==
    (Verified /\ TypeOf(last.signature) = "string") =>
        \A pairs \in OtherPairs :
            /\ SameResult(last.payload, Str(last.signature.s \o "," \o pairs))
            /\ SameResult(last.payload, Str(pairs \o "," \o last.signature.s))

\* C23's case: a header with a pair x=1 after its signature verifies true.
C23_Witness ==
    /\ Verified
    /\ \E t \in Timestamps :
          last.signature = Str(SenderHeader("wa", t, IdJson) \o ",x=1")
    /\ Returned(TRUE)

\* C24: whenever verifyWebhookSignature reaches the comparison of the
\* provided v1 with the expected signature, the comparison is made by
\* crypto.timingSafeEqual, never by string equality: no call returns true
\* otherwise, and a v1 of another length than the expected signature makes
\* the comparison raise, as timingSafeEqual does and === does not.
C24_ConstantTimeComparison ==
    (Verified /\ Truthy(last.secret)) =>
        /\ last.res.compared \in {"", "timingSafeEqual"}
        /\ last.res.hmacs = 1 => last.res.compared = "timingSafeEqual"
        /\ Returned(TRUE) => last.res.compared = "timingSafeEqual"
        /\ (/\ last.res.hmacs = 1
            /\ Len(HeaderValue(last.signature.s, "v1").s)
                  # Len(HmacSha256Hex(last.secret.s,
                         HeaderValue(last.signature.s, "t").s \o "."
                             \o Canonical(last.payload))))
              => last.res.caught = "RangeError"

\* C24's case: a v1 of the right length and the wrong content, compared
\* and found unequal.
C24_Witness ==
    /\ Verified
    /\ last.res.compared = "timingSafeEqual"
    /\ last.res.caught = ""
    /\ Returned(FALSE)

----------------------------------------------------------------------------
(* The signing secret, the timestamp, interleavings, 2xx replies, the      *)
(* order of validation, the webhook secret.                                *)

\* sub occurs in s.
Contains(s, sub) ==
    \E i \in 1..(Len(s) - Len(sub) + 1) : Substring(s, i, i + Len(sub) - 1) = sub

\* The texts a token's claims are made of.
ClaimTexts(token) ==
    {TemplateString(token.payload.user_id), TemplateString(token.payload.api_key),
     TemplateString(token.payload.org_id), TemplateString(token.payload.jti),
     JSONText(token.payload.device)}

\* The texts of a request: its URL, its body, the claims of its bearer token.
RequestTexts(request) ==
    {request.url} \cup (IF TypeOf(request.body) = "string" THEN {request.body.s} ELSE {})
        \cup ClaimTexts(request.headers.Authorization.bearer)

\* The message of the error the latest step threw: a ServerAPIError when a
\* fetch had settled, an Error otherwise.
ThrownMessage ==
    IF "reply" \in DOMAIN last THEN last.res.error.message ELSE last.res.error

\* The messages validateUserInfo throws, fixed texts of the source.
ValidationMessages ==
    {"userId is required and must be a non-empty string",
     "fullName is required and must be a non-empty string",
     "At least one of email or phone must be provided",
     "email must be a string", "phone must be a string"}

\* C25: the apiSecret never appears in any output of the client: not in
\* the claims of a token, not in the URL, the body or the bearer token of a
\* request, not in an error message (other than by the letters of a fixed
\* text) and not in what verifyWebhookSignature logs.
C25_SecretNeverOutput ==
    client # NoClient =>
        LET secret == client.apiSecret.s
            free(texts) == \A text \in texts : ~Contains(text, secret)
        IN  /\ \A call \in calls :
                  /\ free(ClaimTexts(call.tokenData.token))
                  /\ call.pc = "fetching" => free(RequestTexts(call.request))
            /\ last.op = "fetch" => free(RequestTexts(last.request))
            /\ (last.op = "generateToken" /\ last.res.outcome = "return") =>
                  free(ClaimTexts(last.res.value.token))
            /\ ("res" \in DOMAIN last /\ last.res.outcome = "throw") =>
                  \/ ThrownMessage \in ValidationMessages
                  \/ free({ThrownMessage})
            /\ (last.op = "verifyWebhookSignature" /\ last.res.logged > 0) =>
                  free({last.res.caught})

\* C25's case: a createUser request is out, its token signed with the
\* secret.
C25_Witness ==
    /\ last.op = "fetch"
    /\ last.call.op = "createUser"
    /\ last.request.headers.Authorization.bearer.signedWith = client.apiSecret
    /\ ~Contains(last.request.body.s, client.apiSecret.s)

\* C26: whenever verifyWebhookSignature returns true, the header's t is a
\* decimal integer T with currentTime - T <= 900.
C26_TrueOnlyForFreshDecimal ==
    (Verified /\ Returned(TRUE)) =>
        \E T \in SignTimes \cup {0} :
            /\ HeaderValue(last.signature.s, "t") = Str(NumberToString(T))
            /\ CurrentTime - T <= 900

\* C27: under any interleaving of createUser and deleteUser calls on one
\* client, each HTTP request carries the token minted inside its own call,
\* for the user id that appears in its URL; a token minted by one call is
\* never sent by another.
C27_OwnTokenUnderInterleaving ==
    \A call \in calls :
        call.pc = "fetching" =>
            LET sent == call.request.headers.Authorization.bearer
            IN  /\ sent = call.tokenData.token
                /\ call.request.url =
                       "/api/v1/server/users/" \o TemplateString(sent.payload.user_id)
                /\ \A other \in calls \ {call} :
                      /\ sent # other.tokenData.token
                      /\ sent.payload.jti # other.tokenData.token.payload.jti

\* C27's case: a createUser and a deleteUser request are out together, for
\* different users.
C27_Witness ==
    \E c, d \in calls :
        /\ c.pc = "fetching" /\ d.pc = "fetching"
        /\ c.op = "createUser" /\ d.op = "deleteUser"
        /\ c.uid # d.uid

\* C28: whenever the remote service answers with a 2xx status, createUser
\* and deleteUser complete successfully and return the response body; a
\* ServerAPIError is raised only for a non-2xx response or for a request
\* that failed at the network level.
C28_SuccessOn2xx ==
    Settled =>
        /\ (last.reply.kind = "response" /\ last.reply.ok) =>
              last.res.outcome = "return"
        /\ last.res.outcome = "throw" =>
              \/ last.reply.kind = "rejected"
              \/ ~last.reply.ok

\* The userInfo fails validation: no object, an empty or blank userId, an
\* empty fullName, or neither email nor phone.
FailsValidation(userInfo) ==
    \/ InvalidUserInfo(userInfo)
    \/ /\ TypeOf(PropOf(userInfo, "userId")) = "string"
       /\ Trim(PropOf(userInfo, "userId").s) = ""

\* C29: createUser validates userInfo before minting anything: when
\* userInfo fails validation, the call fails without any token having been
\* signed, so no createUser call holding a token has such a userInfo.
C29_ValidatedBeforeMinting ==
    \A call \in calls :
        call.op = "createUser" => ~FailsValidation(call.args.userInfo)

\* C30: the stored webhook secret changes only through a successful
\* setWebhookSecret call, to the string passed in: a setWebhookSecret call
\* with an empty or non-string argument throws and leaves it as it was, set
\* or unset, and no other operation modifies it.
C30_SecretChangesOnlyBySetter ==
    [][client # NoClient =>
          /\ client'.webhookSecret # client.webhookSecret =>
                /\ last'.op = "setWebhookSecret"
                /\ last'.res.outcome = "return"
                /\ TypeOf(last'.secret) = "string" /\ last'.secret # Str("")
                /\ client'.webhookSecret = last'.secret
          /\ (/\ last'.op = "setWebhookSecret"
              /\ TypeOf(last'.secret) # "string" \/ last'.secret = Str(""))
                => /\ last'.res.outcome = "throw"
                   /\ client'.webhookSecret = last'.before]_vars

\* C30's case: a setWebhookSecret call with a number, on a client whose
\* secret is set, threw and the secret is what it was.
C30_Witness ==
    /\ last.op = "setWebhookSecret"
    /\ last.secret = Num(123)
    /\ last.res.outcome = "throw"
    /\ Truthy(last.before)
    /\ client.webhookSecret = last.before

====
